---- MODULE Spec2Model ----
(***************************************************************************)
(* Signal-conditioning core of the LOLIN thermometer (DataUtils.cpp):      *)
(* the circular trend buffer and the exponential smoothing filter.         *)
(*                                                                         *)
(* Number model.  A C float is modelled as a fixed-point number, an        *)
(* integer count of hundredths of a degree (20.0 degC is 2000).  The       *)
(* double-precision arithmetic of an expression is taken as exact, and a   *)
(* store into a float variable rounds the exact value to the nearest       *)
(* representable one (ties to even).  TREND_THRESHOLD 0.1 is 10 and        *)
(* ALPHA 0.02 is 2 (of 100) in this unit.  NaN, the value a failed sensor  *)
(* read returns, is one value apart from all numbers: arithmetic on it     *)
(* gives NaN and every ordered comparison with it is false.                *)
(*                                                                         *)
(* The sketch (LOLIN_Thermometer.ino, setup() and loop()) is modelled      *)
(* with one action per statement that calls into DataUtils.                *)
(*                                                                         *)
(* The later sketch with WiFi and MQTT is modelled from its connection     *)
(* test to PublishData, with the broker as environment.                    *)
(*                                                                         *)
(* RoundToDecimals is declared in DataUtils.h; it is modelled from its     *)
(* description, on decimal values counted in units of 10^-5.               *)
(***************************************************************************)
EXTENDS Integers, Sequences, FiniteSets, TLC

\* ---------------------------------------------------------------- constants

TREND_COUNT == 10

TREND_THRESHOLD == 10

DEFAULT_TEMP == 2000

ALPHA == 2

\* ALPHA and (1.0 - ALPHA) are parts of ONE: 1.0 in the unit of ALPHA.
ONE == 100

\* ------------------------------------------------------------------- bounds

\* Add calls the model follows from one initialisation of the buffer.
MaxAdds == 11

\* Run_ExponentialSmooth calls the model follows from one Init of the filter.
MaxUpdates == 4

\* Samples handed to AddTmprToTrendBuffer.
Samples == {2000, 2011}

\* Samples handed to Init_TmprTrendBuffer.
InitSamples == {2000, 2001, 2010, 2011}

\* Samples handed to the smoothing filter.
RawSamples == {1900, 2000, 2150}

\* RoundToDecimals applications the model follows on one value.
MaxRounds == 2

\* loop() iterations the model follows.
MaxCycles == 3

Slots == 0 .. (TREND_COUNT - 1)

\* -------------------------------------------------------------------- state

VARIABLES
  DU_Filtered,            \* PRIVATE float DU_Filtered
  DU_TmprTrendBuffer,     \* PRIVATE float DU_TmprTrendBuffer[TREND_COUNT]
  DU_TmprTrendBufferIdx,  \* PRIVATE UB DU_TmprTrendBufferIdx
  call,                   \* observation: the last call, its argument, what it read and returned
  trendInit,              \* observation: <<t_init>> of the last Init_TmprTrendBuffer, <<>> if none
  hist,                   \* observation: the values Added since the buffer was last initialised
  stamp,                  \* observation: per slot, the number of the Add that wrote it last (0: initialisation)
  smoothInit,             \* observation: <<t_init>> of the last Init_ExponentialSmooth, <<>> if none
  raws,                   \* observation: the raw values filtered since the filter was last initialised
  pc,                     \* the sketch: the statement setup() or loop() executes next
  setup_t_init,           \* setup(): float t_init
  loop_t,                 \* loop(): float t
  loop_h,                 \* loop(): float h
  loop_t_filt,            \* loop(): float t_filt
  loop_h_round,           \* loop(): UB h_round
  cycles,                 \* observation: the loop() iterations started
  count,                  \* observation: the calls of each DataUtils function the sketch has made
  trace,                  \* observation: the calls the current loop() iteration has made, in order
  printed,                \* observation: what the current loop() iteration handed to PrintToDisplay
  rounded,                \* observation: the value and places last handed to RoundToDecimals, and the results
  client_connected,       \* the sketch with MQTT: what client.connected() returns
  broker_up,              \* environment: the MQTT broker can be reached
  published               \* observation: what the current loop() iteration handed to PublishData

prog == <<DU_Filtered, DU_TmprTrendBuffer, DU_TmprTrendBufferIdx>>

\* The observations kept of the calls made through the Call actions.
apiObs == <<trendInit, hist, stamp, smoothInit, raws, rounded>>

\* The MQTT client of the later sketch, its broker, and what was published.
mqtt == <<client_connected, broker_up, published>>

\* The sketch's own state and the observations kept of it.
sketch == <<pc, setup_t_init, loop_t, loop_h, loop_t_filt, loop_h_round, cycles, count, trace, printed>>

vars == <<DU_Filtered, DU_TmprTrendBuffer, DU_TmprTrendBufferIdx,
          call, trendInit, hist, stamp, smoothInit, raws,
          pc, setup_t_init, loop_t, loop_h, loop_t_filt, loop_h_round, cycles, count, trace, printed,
          rounded, client_connected, broker_up, published>>

\* --------------------------------------------------------------- arithmetic

\* typedef unsigned char UB: a value stored into a UB is taken modulo 2^8.
UB(x) == x % 256

\* The store of an exact value num/den (den > 0) into a float: the nearest
\* representable value, a tie going to the even one.
StoreFloat(num, den) ==
  LET q == num \div den
      r == num % den
  IN  IF 2 * r < den THEN q
      ELSE IF 2 * r > den THEN q + 1
      ELSE IF q % 2 = 0 THEN q ELSE q + 1

\* NaN, coded outside the range of every sample.
NaN == -1000000

\* isnan(x)
IsNan(x) == x = NaN

\* a + b in floating point.
FloatAdd(a, b) == IF IsNan(a) \/ IsNan(b) THEN NaN ELSE a + b

\* a > b and a < b in floating point: false when either is NaN.
FloatGt(a, b) == ~IsNan(a) /\ ~IsNan(b) /\ a > b

FloatLt(a, b) == ~IsNan(a) /\ ~IsNan(b) /\ a < b

\* round(x) of <math.h> for x = num/den (den > 0): the nearest integer, a
\* tie going away from zero.
RoundHalfAway(num, den) ==
  IF num >= 0
    THEN ((2 * num) + den) \div (2 * den)
    ELSE 0 - (((2 * (0 - num)) + den) \div (2 * den))

\* (UB)d for an integral double d: d when it fits; the conversion of a value
\* that does not fit is undefined, any UB value may result.
CastUB(d) == IF d \in 0 .. 255 THEN {d} ELSE 0 .. 255

\* The record kept of a call.
Call(fn, arg, ret, oldestIdx, newestIdx, oldestTemp, newestTemp) ==
  [fn |-> fn, arg |-> arg, ret |-> ret,
   oldestIdx |-> oldestIdx, newestIdx |-> newestIdx,
   oldestTemp |-> oldestTemp, newestTemp |-> newestTemp]

NoCall == Call("none", 0, 0, 0, 0, 0, 0)

\* --------------------------------------------------------- DataUtils.cpp

\* for (UB i = 0; i < TREND_COUNT; i++) DU_TmprTrendBuffer[i] = t_init;
RECURSIVE FillFrom(_, _, _)
FillFrom(buffer, i, t_init) ==
  IF i < TREND_COUNT
    THEN FillFrom([buffer EXCEPT ![i] = t_init], UB(i + 1), t_init)
    ELSE buffer

\* Mutant of Init_TmprTrendBuffer: the loop starts at slot 1.
Init_TmprTrendBuffer_SkipFirst(t_init) ==
  /\ DU_TmprTrendBuffer' = FillFrom(DU_TmprTrendBuffer, 1, t_init)
  /\ UNCHANGED <<DU_Filtered, DU_TmprTrendBufferIdx>>

\* Mutant of Run_ExponentialSmooth: the two weights are exchanged.
Run_ExponentialSmooth_Swapped(rawValue) ==
  /\ DU_Filtered' = StoreFloat(((ONE - ALPHA) * rawValue) + (ALPHA * DU_Filtered), ONE)
  /\ UNCHANGED <<DU_TmprTrendBuffer, DU_TmprTrendBufferIdx>>

\* Mutant of Run_ExponentialSmooth: the stored value keeps its full weight.
Run_ExponentialSmooth_NoComplement(rawValue) ==
  /\ DU_Filtered' = StoreFloat((ALPHA * rawValue) + (ONE * DU_Filtered), ONE)
  /\ UNCHANGED <<DU_TmprTrendBuffer, DU_TmprTrendBufferIdx>>

\* Mutant of Run_ExponentialSmooth: the blend starts from DEFAULT_TEMP, not
\* from the stored value.
Run_ExponentialSmooth_Stale(rawValue) ==
  /\ DU_Filtered' = StoreFloat((ALPHA * rawValue) + ((ONE - ALPHA) * DEFAULT_TEMP), ONE)
  /\ UNCHANGED <<DU_TmprTrendBuffer, DU_TmprTrendBufferIdx>>

\* Mutant of Run_ExponentialSmooth: the blend is also written into the trend
\* buffer, at the cursor.
Run_ExponentialSmooth_Clobber(rawValue) ==
  /\ DU_Filtered' = StoreFloat((ALPHA * rawValue) + ((ONE - ALPHA) * DU_Filtered), ONE)
  /\ DU_TmprTrendBuffer' = [DU_TmprTrendBuffer EXCEPT ![DU_TmprTrendBufferIdx] = DU_Filtered']
  /\ UNCHANGED DU_TmprTrendBufferIdx

\* Mutant of AddTmprToTrendBuffer: the index advances before the store.
AddTmprToTrendBuffer_PreInc(newTmpr) ==
  /\ DU_TmprTrendBuffer' =
       [DU_TmprTrendBuffer EXCEPT ![UB((DU_TmprTrendBufferIdx + 1) % TREND_COUNT)] = newTmpr]
  /\ DU_TmprTrendBufferIdx' = UB((DU_TmprTrendBufferIdx + 1) % TREND_COUNT)
  /\ UNCHANGED DU_Filtered

\* Mutant of AddTmprToTrendBuffer: the index advances without wrapping.
AddTmprToTrendBuffer_NoWrap(newTmpr) ==
  /\ DU_TmprTrendBuffer' = [DU_TmprTrendBuffer EXCEPT ![DU_TmprTrendBufferIdx] = newTmpr]
  /\ DU_TmprTrendBufferIdx' = UB(DU_TmprTrendBufferIdx + 1)
  /\ UNCHANGED DU_Filtered

\* Mutant of AddTmprToTrendBuffer: the index never advances.
AddTmprToTrendBuffer_NoAdvance(newTmpr) ==
  /\ DU_TmprTrendBuffer' = [DU_TmprTrendBuffer EXCEPT ![DU_TmprTrendBufferIdx] = newTmpr]
  /\ DU_TmprTrendBufferIdx' = DU_TmprTrendBufferIdx
  /\ UNCHANGED DU_Filtered

\* Mutant of GetTemperatureTrend: the rising test admits equality.
GetTemperatureTrend_GE ==
  LET oldestIdx == DU_TmprTrendBufferIdx
      newestIdx == IF 0 = DU_TmprTrendBufferIdx
                     THEN UB(TREND_COUNT - 1)
                     ELSE UB(DU_TmprTrendBufferIdx - 1)
      oldestTemp == DU_TmprTrendBuffer[oldestIdx]
      newestTemp == DU_TmprTrendBuffer[newestIdx]
      ret == IF \/ FloatGt(newestTemp, FloatAdd(oldestTemp, TREND_THRESHOLD))
                \/ (~IsNan(newestTemp) /\ newestTemp = FloatAdd(oldestTemp, TREND_THRESHOLD))
               THEN 1
             ELSE IF FloatLt(newestTemp, FloatAdd(oldestTemp, 0 - TREND_THRESHOLD)) THEN -1
             ELSE 0
  IN  Call("GetTemperatureTrend", 0, ret, oldestIdx, newestIdx, oldestTemp, newestTemp)

\* Mutant of GetTemperatureTrend: the oldest value is read one slot too far.
GetTemperatureTrend_OldestNext ==
  LET oldestIdx == UB((DU_TmprTrendBufferIdx + 1) % TREND_COUNT)
      newestIdx == IF 0 = DU_TmprTrendBufferIdx
                     THEN UB(TREND_COUNT - 1)
                     ELSE UB(DU_TmprTrendBufferIdx - 1)
      oldestTemp == DU_TmprTrendBuffer[oldestIdx]
      newestTemp == DU_TmprTrendBuffer[newestIdx]
      ret == IF FloatGt(newestTemp, FloatAdd(oldestTemp, TREND_THRESHOLD)) THEN 1
             ELSE IF FloatLt(newestTemp, FloatAdd(oldestTemp, 0 - TREND_THRESHOLD)) THEN -1
             ELSE 0
  IN  Call("GetTemperatureTrend", 0, ret, oldestIdx, newestIdx, oldestTemp, newestTemp)

Init_ExponentialSmooth(t_init) ==
  /\ DU_Filtered' = t_init
  /\ UNCHANGED <<DU_TmprTrendBuffer, DU_TmprTrendBufferIdx>>

Init_TmprTrendBuffer(t_init) ==
  /\ DU_TmprTrendBuffer' = FillFrom(DU_TmprTrendBuffer, 0, t_init)
  /\ UNCHANGED <<DU_Filtered, DU_TmprTrendBufferIdx>>

\* DU_Filtered = (ALPHA * rawValue) + ((1.0 - ALPHA) * DU_Filtered); return DU_Filtered;
Run_ExponentialSmooth(rawValue) ==
  /\ DU_Filtered' =
       IF IsNan(rawValue) \/ IsNan(DU_Filtered) THEN NaN
       ELSE StoreFloat((ALPHA * rawValue) + ((ONE - ALPHA) * DU_Filtered), ONE)
  /\ UNCHANGED <<DU_TmprTrendBuffer, DU_TmprTrendBufferIdx>>

AddTmprToTrendBuffer(newTmpr) ==
  /\ DU_TmprTrendBuffer' = [DU_TmprTrendBuffer EXCEPT ![DU_TmprTrendBufferIdx] = newTmpr]
  /\ DU_TmprTrendBufferIdx' = UB((DU_TmprTrendBufferIdx + 1) % TREND_COUNT)
  /\ UNCHANGED DU_Filtered

\* The locals and the return value of one GetTemperatureTrend().
GetTemperatureTrend ==
  LET oldestIdx == DU_TmprTrendBufferIdx
      newestIdx == IF 0 = DU_TmprTrendBufferIdx
                     THEN UB(TREND_COUNT - 1)
                     ELSE UB(DU_TmprTrendBufferIdx - 1)
      oldestTemp == DU_TmprTrendBuffer[oldestIdx]
      newestTemp == DU_TmprTrendBuffer[newestIdx]
      ret == IF FloatGt(newestTemp, FloatAdd(oldestTemp, TREND_THRESHOLD)) THEN 1
             ELSE IF FloatLt(newestTemp, FloatAdd(oldestTemp, 0 - TREND_THRESHOLD)) THEN -1
             ELSE 0
  IN  Call("GetTemperatureTrend", 0, ret, oldestIdx, newestIdx, oldestTemp, newestTemp)

\* return DU_TmprTrendBuffer;
GetTmprTrendBuffer == DU_TmprTrendBuffer

\* ----------------------------------------------------------------- actions

\* What sht30.readTemperature() returns: a temperature, or NaN on a failed read.
TempReadings == {NaN, 2000, 2150}

\* What sht30.readHumidity() returns, in hundredths of a percent (45.5 % is
\* 4550), or NaN on a failed read.
HumReadings == {NaN, 4550, 10000, 10060, 30000}

\* No call of any DataUtils function made yet.
NoCalls ==
  [Init_ExponentialSmooth |-> 0, Init_TmprTrendBuffer |-> 0,
   Run_ExponentialSmooth |-> 0, AddTmprToTrendBuffer |-> 0,
   GetTemperatureTrend |-> 0, GetTmprTrendBuffer |-> 0]

\* Static initialisation: DU_Filtered = DEFAULT_TEMP, the array zeroed, the index 0.
Init ==
  /\ DU_Filtered = DEFAULT_TEMP
  /\ DU_TmprTrendBuffer = [i \in Slots |-> 0]
  /\ DU_TmprTrendBufferIdx = 0
  /\ call = NoCall
  /\ trendInit = <<>>
  /\ hist = <<>>
  /\ stamp = [i \in Slots |-> 0]
  /\ smoothInit = <<>>
  /\ raws = <<>>
  /\ pc = "setup_sensor"
  /\ setup_t_init = 0
  /\ loop_t = 0
  /\ loop_h = 0
  /\ loop_t_filt = 0
  /\ loop_h_round = 0
  /\ cycles = 0
  /\ count = NoCalls
  /\ trace = <<>>
  /\ printed = <<>>
  /\ rounded = [value |-> 0, places |-> 0, rets |-> <<>>]
  /\ client_connected = FALSE
  /\ broker_up = FALSE
  /\ published = <<>>

CallInitTrend ==
  \E t_init \in InitSamples :
    /\ Init_TmprTrendBuffer(t_init)
    /\ call' = Call("Init_TmprTrendBuffer", t_init, 0, 0, 0, 0, 0)
    /\ trendInit' = <<t_init>>
    /\ hist' = <<>>
    /\ stamp' = [i \in Slots |-> 0]
    /\ UNCHANGED <<smoothInit, raws, sketch, rounded, mqtt>>

CallAdd ==
  \E newTmpr \in Samples :
    /\ Len(hist) < MaxAdds
    /\ AddTmprToTrendBuffer(newTmpr)
    /\ call' = Call("AddTmprToTrendBuffer", newTmpr, 0, 0, 0, 0, 0)
    /\ hist' = Append(hist, newTmpr)
    /\ stamp' = [stamp EXCEPT ![DU_TmprTrendBufferIdx] = Len(hist) + 1]
    /\ UNCHANGED <<trendInit, smoothInit, raws, sketch, rounded, mqtt>>

CallClassify ==
  /\ call' = GetTemperatureTrend
  /\ UNCHANGED <<prog, trendInit, hist, stamp, smoothInit, raws, sketch, rounded, mqtt>>

CallSnapshot ==
  /\ call' = Call("GetTmprTrendBuffer", 0, GetTmprTrendBuffer, 0, 0, 0, 0)
  /\ UNCHANGED <<prog, trendInit, hist, stamp, smoothInit, raws, sketch, rounded, mqtt>>

CallInitSmooth ==
  \E t_init \in RawSamples :
    /\ Init_ExponentialSmooth(t_init)
    /\ call' = Call("Init_ExponentialSmooth", t_init, 0, 0, 0, 0, 0)
    /\ smoothInit' = <<t_init>>
    /\ raws' = <<>>
    /\ UNCHANGED <<trendInit, hist, stamp, sketch, rounded, mqtt>>

CallUpdate ==
  \E rawValue \in RawSamples :
    /\ Len(raws) < MaxUpdates
    /\ Run_ExponentialSmooth(rawValue)
    /\ call' = Call("Run_ExponentialSmooth", rawValue, DU_Filtered', 0, 0, 0, 0)
    /\ raws' = Append(raws, rawValue)
    /\ UNCHANGED <<trendInit, hist, stamp, smoothInit, sketch, rounded, mqtt>>

\* The trend buffer's operations, called in any order.
Next ==
  \/ CallInitTrend
  \/ CallAdd
  \/ CallClassify
  \/ CallSnapshot

Spec == Init /\ [][Next]_vars

\* The smoothing filter's operations, called in any order.
NextSmooth ==
  \/ CallInitSmooth
  \/ CallUpdate

SpecSmooth == Init /\ [][NextSmooth]_vars

\* ------------------------------------------------------- the rounder

\* The values handed to RoundToDecimals are counted in units of 10^-5:
\* 3.14159 is 314159.
FINE == 100000

\* Values handed to RoundToDecimals: between two multiples, on them, and half
\* way between them, of either sign.
RoundValues ==
  {314159, 314500, 314499, 314000, 951234, 999500, 99999, 50000, 49999, 5, 0,
   0 - 5, 0 - 49999, 0 - 50000, 0 - 100500, 0 - 314159, 0 - 999500}

\* Places handed to RoundToDecimals.
RoundPlaces == 0 .. 3

RECURSIVE Pow10(_)
Pow10(n) == IF n = 0 THEN 1 ELSE 10 * Pow10(n - 1)

\* Mutant of RoundToDecimals: the scaled value is truncated, not rounded.
RoundToDecimals_Truncate(value, places) ==
  LET scaled == value * Pow10(places)
      whole == IF scaled >= 0 THEN scaled \div FINE ELSE 0 - ((0 - scaled) \div FINE)
  IN  (whole * FINE) \div Pow10(places)

\* float RoundToDecimals(float value, UB places): value scaled by 10^places,
\* rounded to the nearest integer (half away from zero), scaled back.
RoundToDecimals(value, places) ==
  (RoundHalfAway(value * Pow10(places), FINE) * FINE) \div Pow10(places)

\* A call of RoundToDecimals.
CallRound ==
  \E value \in RoundValues, places \in RoundPlaces :
    /\ rounded' = [value |-> value, places |-> places,
                   rets |-> <<RoundToDecimals(value, places)>>]
    /\ UNCHANGED <<prog, call, trendInit, hist, stamp, smoothInit, raws, sketch, mqtt>>

\* A call of RoundToDecimals on the result of the call before, same places.
CallRoundAgain ==
  /\ rounded.rets # <<>>
  /\ Len(rounded.rets) < MaxRounds
  /\ rounded' = [rounded EXCEPT
                   !.rets = Append(@, RoundToDecimals(@[Len(@)], rounded.places))]
  /\ UNCHANGED <<prog, call, trendInit, hist, stamp, smoothInit, raws, sketch, mqtt>>

\* The rounder, applied to any value and to its own results.
NextRound ==
  \/ CallRound
  \/ CallRoundAgain

SpecRound == Init /\ [][NextRound]_vars

\* ------------------------------------------- LOLIN_Thermometer.ino

\* One more call of fn.
Counted(fn) == [count EXCEPT ![fn] = @ + 1]

\* setup(): sht30.begin(); without the sensor the sketch spins in for(;;).
SetupSensor ==
  /\ pc = "setup_sensor"
  /\ \E found \in BOOLEAN : pc' = IF found THEN "setup_init_smooth" ELSE "halted"
  /\ UNCHANGED <<prog, call, apiObs, mqtt, setup_t_init, loop_t, loop_h, loop_t_filt, loop_h_round, cycles, count, trace, printed>>

\* setup(): float t_init = sht30.readTemperature(); Init_ExponentialSmooth(t_init);
SetupInitSmooth ==
  /\ pc = "setup_init_smooth"
  /\ \E reading \in TempReadings :
       /\ setup_t_init' = reading
       /\ Init_ExponentialSmooth(reading)
       /\ call' = Call("Init_ExponentialSmooth", reading, 0, 0, 0, 0, 0)
  /\ count' = Counted("Init_ExponentialSmooth")
  /\ pc' = "setup_init_trend"
  /\ UNCHANGED <<apiObs, mqtt, loop_t, loop_h, loop_t_filt, loop_h_round, cycles, trace, printed>>

\* Mutant of SetupInitTrend: setup() goes on without initialising the buffer.
SetupInitTrend_Skipped ==
  /\ pc = "setup_init_trend"
  /\ pc' = "setup_display"
  /\ UNCHANGED <<prog, call, apiObs, mqtt, setup_t_init, loop_t, loop_h, loop_t_filt, loop_h_round,
                 cycles, count, trace, printed>>

\* setup(): Init_TmprTrendBuffer(t_init);
SetupInitTrend ==
  /\ pc = "setup_init_trend"
  /\ Init_TmprTrendBuffer(setup_t_init)
  /\ call' = Call("Init_TmprTrendBuffer", setup_t_init, 0, 0, 0, 0, 0)
  /\ count' = Counted("Init_TmprTrendBuffer")
  /\ pc' = "setup_display"
  /\ UNCHANGED <<apiObs, mqtt, setup_t_init, loop_t, loop_h, loop_t_filt, loop_h_round, cycles, trace, printed>>

\* setup(): display.begin(); without the display the sketch spins in
\* while (1) delay(1); otherwise the init message is shown and loop() starts.
SetupDisplay ==
  /\ pc = "setup_display"
  /\ \E found \in BOOLEAN : pc' = IF found THEN "loop_read" ELSE "halted"
  /\ UNCHANGED <<prog, call, apiObs, mqtt, setup_t_init, loop_t, loop_h, loop_t_filt, loop_h_round, cycles, count, trace, printed>>

\* Mutant of LoopRead: only the temperature is tested, if (isnan(t)).
LoopRead_TempOnly ==
  /\ pc = "loop_read"
  /\ cycles < MaxCycles
  /\ \E tr \in TempReadings, hr \in HumReadings :
       /\ loop_t' = tr
       /\ loop_h' = hr
       /\ pc' = IF IsNan(tr) THEN "loop_read" ELSE "loop_add"
  /\ loop_t_filt' = 0
  /\ loop_h_round' = 0
  /\ cycles' = cycles + 1
  /\ trace' = <<>>
  /\ printed' = <<>>
  /\ UNCHANGED <<prog, call, apiObs, mqtt, setup_t_init, count>>

\* loop(): t_filt = 0; h_round = 0; the two sensor reads; on an invalid one
\* (isnan(t) || isnan(h)) the iteration returns.
LoopRead ==
  /\ pc = "loop_read"
  /\ cycles < MaxCycles
  /\ \E tr \in TempReadings, hr \in HumReadings :
       /\ loop_t' = tr
       /\ loop_h' = hr
       /\ pc' = IF IsNan(tr) \/ IsNan(hr) THEN "loop_read" ELSE "loop_add"
  /\ loop_t_filt' = 0
  /\ loop_h_round' = 0
  /\ cycles' = cycles + 1
  /\ trace' = <<>>
  /\ printed' = <<>>
  /\ UNCHANGED <<prog, call, apiObs, mqtt, setup_t_init, count>>

\* loop(): AddTmprToTrendBuffer(t);
LoopAdd ==
  /\ pc = "loop_add"
  /\ AddTmprToTrendBuffer(loop_t)
  /\ call' = Call("AddTmprToTrendBuffer", loop_t, 0, 0, 0, 0, 0)
  /\ trace' = Append(trace, call')
  /\ count' = Counted("AddTmprToTrendBuffer")
  /\ pc' = "loop_trend"
  /\ UNCHANGED <<apiObs, mqtt, setup_t_init, loop_t, loop_h, loop_t_filt, loop_h_round, cycles, printed>>

\* loop(): int trend = GetTemperatureTrend();
LoopTrend ==
  /\ pc = "loop_trend"
  /\ call' = GetTemperatureTrend
  /\ trace' = Append(trace, call')
  /\ count' = Counted("GetTemperatureTrend")
  /\ pc' = "loop_smooth"
  /\ UNCHANGED <<prog, apiObs, mqtt, setup_t_init, loop_t, loop_h, loop_t_filt, loop_h_round, cycles, printed>>

\* loop(): t_filt = Run_ExponentialSmooth(t);
LoopSmooth ==
  /\ pc = "loop_smooth"
  /\ Run_ExponentialSmooth(loop_t)
  /\ loop_t_filt' = DU_Filtered'
  /\ call' = Call("Run_ExponentialSmooth", loop_t, DU_Filtered', 0, 0, 0, 0)
  /\ trace' = Append(trace, call')
  /\ count' = Counted("Run_ExponentialSmooth")
  /\ pc' = "loop_round"
  /\ UNCHANGED <<apiObs, mqtt, setup_t_init, loop_t, loop_h, loop_h_round, cycles, printed>>

\* Mutant of RoundHumidity: the clamp to 100 is missing.
RoundHumidity_NoClamp(hum) == CastUB(RoundHalfAway(hum, ONE))

\* h_round = (UB)round(h); if (h_round > 100) h_round = 100;
RoundHumidity(hum) ==
  { IF r > 100 THEN 100 ELSE r : r \in CastUB(RoundHalfAway(hum, ONE)) }

\* loop(): the humidity is cast to UB and clamped to 100.
LoopRound ==
  /\ pc = "loop_round"
  /\ loop_h_round' \in RoundHumidity(loop_h)
  /\ pc' = "loop_serial"
  /\ UNCHANGED <<prog, call, apiObs, mqtt, setup_t_init, loop_t, loop_h, loop_t_filt, cycles, count, trace, printed>>

\* loop(): PrintToSerial(t, t_filt, h_round), which prints the buffer it gets
\* from GetTmprTrendBuffer().
LoopSerial ==
  /\ pc = "loop_serial"
  /\ call' = Call("GetTmprTrendBuffer", 0, GetTmprTrendBuffer, 0, 0, 0, 0)
  /\ trace' = Append(trace, call')
  /\ count' = Counted("GetTmprTrendBuffer")
  /\ pc' = "loop_display"
  /\ UNCHANGED <<prog, apiObs, mqtt, setup_t_init, loop_t, loop_h, loop_t_filt, loop_h_round, cycles, printed>>

\* loop(): PrintToDisplay(t_filt, t, h_round), which shows the three values
\* and the trend it gets from GetTemperatureTrend(); then the delay.
LoopDisplay ==
  /\ pc = "loop_display"
  /\ call' = GetTemperatureTrend
  /\ trace' = Append(trace, call')
  /\ count' = Counted("GetTemperatureTrend")
  /\ printed' = <<[t_filt |-> loop_t_filt, t_raw |-> loop_t, h |-> loop_h_round, trend |-> call'.ret]>>
  /\ pc' = "loop_read"
  /\ UNCHANGED <<prog, apiObs, mqtt, setup_t_init, loop_t, loop_h, loop_t_filt, loop_h_round, cycles>>

\* setup() once, then loop() again and again.
NextSketch ==
  \/ SetupSensor
  \/ SetupInitSmooth
  \/ SetupInitTrend
  \/ SetupDisplay
  \/ LoopRead
  \/ LoopAdd
  \/ LoopTrend
  \/ LoopSmooth
  \/ LoopRound
  \/ LoopSerial
  \/ LoopDisplay

SpecSketch == Init /\ [][NextSketch]_vars

\* ------------------------------- the sketch with WiFi and MQTT (WIFI_ACTIVE)

\* What the sensor returns to the later sketch, in units of 10^-5 (20.004 degC
\* is 2000400, 45.504 % is 4550400), or NaN on a failed read.
MqttTempReadings == {NaN, 2000400, 2150600}

MqttHumReadings == {NaN, 4550400}

\* x = RoundToDecimals(x, 2), the result counted in hundredths.
Rounded2(x) == RoundToDecimals(x, 2) \div (FINE \div ONE)

\* The statements of loop() up to the end of ReconnectMqtt().
Gate == {"mqtt_check", "mqtt_reconnect", "mqtt_connect"}

\* The statements of loop() behind them.
Measure == {"mqtt_client_loop", "mqtt_read", "mqtt_add", "mqtt_smooth", "mqtt_display",
            "mqtt_publish"}

\* setup(): t_init and h_init are read; on an invalid one the sketch spins in
\* for(;;); otherwise t_init = RoundToDecimals(t_init, 2).
MqttSetupRead ==
  /\ pc = "setup_init_smooth"
  /\ \E tr \in MqttTempReadings, hr \in MqttHumReadings :
       IF IsNan(tr) \/ IsNan(hr)
         THEN pc' = "halted" /\ UNCHANGED setup_t_init
         ELSE pc' = "mqtt_setup_init_smooth" /\ setup_t_init' = Rounded2(tr)
  /\ UNCHANGED <<prog, call, apiObs, mqtt, loop_t, loop_h, loop_t_filt, loop_h_round, cycles,
                 count, trace, printed>>

\* setup(): Init_TmprSmooth(t_init), the temperature filter's Init.
MqttSetupInitSmooth ==
  /\ pc = "mqtt_setup_init_smooth"
  /\ Init_ExponentialSmooth(setup_t_init)
  /\ call' = Call("Init_ExponentialSmooth", setup_t_init, 0, 0, 0, 0, 0)
  /\ count' = Counted("Init_ExponentialSmooth")
  /\ pc' = "setup_init_trend"
  /\ UNCHANGED <<apiObs, mqtt, setup_t_init, loop_t, loop_h, loop_t_filt, loop_h_round, cycles,
                 trace, printed>>

\* setup(): display.begin(), spinning without the display; WifiSetup(), which
\* returns once WiFi.status() is WL_CONNECTED and spins until then;
\* client.setServer().
MqttSetupDisplay ==
  /\ pc = "setup_display"
  /\ \E found \in BOOLEAN, wifi \in BOOLEAN :
       pc' = IF found /\ wifi THEN "mqtt_check" ELSE "halted"
  /\ UNCHANGED <<prog, call, apiObs, mqtt, setup_t_init, loop_t, loop_h, loop_t_filt,
                 loop_h_round, cycles, count, trace, printed>>

\* loop(): the locals; if (!client.connected()) ReconnectMqtt();
MqttLoopCheck ==
  /\ pc = "mqtt_check"
  /\ cycles < MaxCycles
  /\ cycles' = cycles + 1
  /\ loop_t_filt' = 0
  /\ loop_h_round' = 0
  /\ trace' = <<>>
  /\ printed' = <<>>
  /\ published' = <<>>
  /\ pc' = IF client_connected THEN "mqtt_client_loop" ELSE "mqtt_reconnect"
  /\ UNCHANGED <<prog, call, apiObs, client_connected, broker_up, setup_t_init, loop_t, loop_h,
                 count>>

\* ReconnectMqtt(): while (!client.connected())
MqttWhile ==
  /\ pc = "mqtt_reconnect"
  /\ pc' = IF client_connected THEN "mqtt_client_loop" ELSE "mqtt_connect"
  /\ UNCHANGED <<prog, call, apiObs, mqtt, setup_t_init, loop_t, loop_h, loop_t_filt,
                 loop_h_round, cycles, count, trace, printed>>

\* Mutant of MqttConnect: one attempt, and loop() goes on whatever its result.
MqttConnect_NoRetry ==
  /\ pc = "mqtt_connect"
  /\ \E ok \in (IF broker_up THEN BOOLEAN ELSE {FALSE}) : client_connected' = ok
  /\ pc' = "mqtt_client_loop"
  /\ UNCHANGED <<prog, call, apiObs, broker_up, published, setup_t_init, loop_t, loop_h,
                 loop_t_filt, loop_h_round, cycles, count, trace, printed>>

\* ReconnectMqtt(): client.connect(), which can succeed only if the broker is
\* reached; after it, or after the delay that follows a failure, the while
\* condition is tested again.
MqttConnect ==
  /\ pc = "mqtt_connect"
  /\ \E ok \in (IF broker_up THEN BOOLEAN ELSE {FALSE}) : client_connected' = ok
  /\ pc' = "mqtt_reconnect"
  /\ UNCHANGED <<prog, call, apiObs, broker_up, published, setup_t_init, loop_t, loop_h,
                 loop_t_filt, loop_h_round, cycles, count, trace, printed>>

\* loop(): client.loop(), which may find the connection lost.
MqttClientLoop ==
  /\ pc = "mqtt_client_loop"
  /\ \E alive \in (IF client_connected THEN BOOLEAN ELSE {FALSE}) : client_connected' = alive
  /\ pc' = "mqtt_read"
  /\ UNCHANGED <<prog, call, apiObs, broker_up, published, setup_t_init, loop_t, loop_h,
                 loop_t_filt, loop_h_round, cycles, count, trace, printed>>

\* loop(): the two sensor reads; on an invalid one the iteration returns;
\* otherwise t = RoundToDecimals(t, 2) and, further down, h = RoundToDecimals(h, 2).
MqttRead ==
  /\ pc = "mqtt_read"
  /\ \E tr \in MqttTempReadings, hr \in MqttHumReadings :
       IF IsNan(tr) \/ IsNan(hr)
         THEN loop_t' = tr /\ loop_h' = hr /\ pc' = "mqtt_check"
         ELSE loop_t' = Rounded2(tr) /\ loop_h' = Rounded2(hr) /\ pc' = "mqtt_add"
  /\ UNCHANGED <<prog, call, apiObs, mqtt, setup_t_init, loop_t_filt, loop_h_round, cycles,
                 count, trace, printed>>

\* loop(): AddTmprToTrendBuffer(t);
MqttAdd ==
  /\ pc = "mqtt_add"
  /\ AddTmprToTrendBuffer(loop_t)
  /\ call' = Call("AddTmprToTrendBuffer", loop_t, 0, 0, 0, 0, 0)
  /\ trace' = Append(trace, call')
  /\ count' = Counted("AddTmprToTrendBuffer")
  /\ pc' = "mqtt_smooth"
  /\ UNCHANGED <<apiObs, mqtt, setup_t_init, loop_t, loop_h, loop_t_filt, loop_h_round, cycles,
                 printed>>

\* loop(): t_filt = Run_TmprSmooth(t), the temperature filter's Update;
\* t_filt = RoundToDecimals(t_filt, 2).
MqttSmooth ==
  /\ pc = "mqtt_smooth"
  /\ Run_ExponentialSmooth(loop_t)
  /\ loop_t_filt' = Rounded2(DU_Filtered' * (FINE \div ONE))
  /\ call' = Call("Run_ExponentialSmooth", loop_t, DU_Filtered', 0, 0, 0, 0)
  /\ trace' = Append(trace, call')
  /\ count' = Counted("Run_ExponentialSmooth")
  /\ pc' = "mqtt_display"
  /\ UNCHANGED <<apiObs, mqtt, setup_t_init, loop_t, loop_h, loop_h_round, cycles, printed>>

\* loop(): h_round is cast and clamped; PrintToSerial(); PrintToDisplay(),
\* which shows the trend it gets from GetTemperatureTrend().
MqttDisplay ==
  /\ pc = "mqtt_display"
  /\ loop_h_round' \in RoundHumidity(loop_h)
  /\ call' = GetTemperatureTrend
  /\ trace' = Append(trace, call')
  /\ count' = Counted("GetTemperatureTrend")
  /\ printed' = <<[t_filt |-> loop_t_filt, t_raw |-> loop_t, h |-> loop_h_round',
                   trend |-> call'.ret]>>
  /\ pc' = "mqtt_publish"
  /\ UNCHANGED <<prog, apiObs, mqtt, setup_t_init, loop_t, loop_h, loop_t_filt, cycles>>

\* loop(): if (client.connected()) PublishData(t_filt, h_filt); then the delay.
MqttPublish ==
  /\ pc = "mqtt_publish"
  /\ published' = IF client_connected THEN <<[tmpr |-> loop_t_filt]>> ELSE published
  /\ pc' = "mqtt_check"
  /\ UNCHANGED <<prog, call, apiObs, client_connected, broker_up, setup_t_init, loop_t, loop_h,
                 loop_t_filt, loop_h_round, cycles, count, trace, printed>>

\* Environment: the connection of the client is lost.
LinkLost ==
  /\ pc \in Gate \cup Measure
  /\ client_connected
  /\ client_connected' = FALSE
  /\ UNCHANGED <<prog, call, apiObs, broker_up, published, sketch>>

\* Environment: the broker goes away or comes back.
BrokerFlip ==
  /\ pc \in Gate \cup Measure
  /\ broker_up' = ~broker_up
  /\ UNCHANGED <<prog, call, apiObs, client_connected, published, sketch>>

\* setup() once, then loop() again and again, with the broker coming and going.
NextMqtt ==
  \/ SetupSensor
  \/ MqttSetupRead
  \/ MqttSetupInitSmooth
  \/ SetupInitTrend
  \/ MqttSetupDisplay
  \/ MqttLoopCheck
  \/ MqttWhile
  \/ MqttConnect
  \/ MqttClientLoop
  \/ MqttRead
  \/ MqttAdd
  \/ MqttSmooth
  \/ MqttDisplay
  \/ MqttPublish
  \/ LinkLost
  \/ BrokerFlip

SpecMqtt == Init /\ [][NextMqtt]_vars

\* ------------------------------------------------------------------ claims

\* The cyclic predecessor of the write cursor, (cursor - 1 + N) mod N.
PrevSlot == (DU_TmprTrendBufferIdx - 1 + TREND_COUNT) % TREND_COUNT

\* The trend the contract assigns to a pair of samples.
Trend(oldest, newest) ==
  IF newest > oldest + TREND_THRESHOLD THEN 1
  ELSE IF newest < oldest - TREND_THRESHOLD THEN -1
  ELSE 0

Classified == call.fn = "GetTemperatureTrend"

TrendInitDone == trendInit # <<>>

\* C1: for every buffer content and every cursor, GetTemperatureTrend reads
\* oldest = buffer[cursor] and newest = buffer[(cursor-1+N) mod N] and returns
\* 1 exactly when newest > oldest + T, -1 exactly when newest < oldest - T and
\* 0 in every other case.
C1_ClassifyContract ==
  Classified =>
    LET oldest == DU_TmprTrendBuffer[DU_TmprTrendBufferIdx]
        newest == DU_TmprTrendBuffer[PrevSlot]
    IN  /\ call.oldestTemp = oldest
        /\ call.newestTemp = newest
        /\ call.ret \in {1, -1, 0}
        /\ (call.ret = 1) <=> (newest > oldest + TREND_THRESHOLD)
        /\ (call.ret = -1) <=> (newest < oldest - TREND_THRESHOLD)
        /\ (call.ret = 0) <=> (~(newest > oldest + TREND_THRESHOLD)
                                 /\ ~(newest < oldest - TREND_THRESHOLD))

\* C1's case: a classification through the wrap branch (cursor 0, newest in
\* the last slot) with newest exactly T above oldest, which is Stable.
C1_Witness ==
  /\ Classified
  /\ call.oldestIdx = 0
  /\ call.newestIdx = TREND_COUNT - 1
  /\ call.newestTemp = call.oldestTemp + TREND_THRESHOLD
  /\ call.ret = 0

\* C2: AddTmprToTrendBuffer(value) called with cursor c sets buffer[c] to
\* value and the cursor to (c+1) mod N; the other N-1 slots and the filtered
\* value keep their values.
C2_AddFrame ==
  [][call'.fn = "AddTmprToTrendBuffer" =>
       /\ DU_TmprTrendBuffer'[DU_TmprTrendBufferIdx] = call'.arg
       /\ DU_TmprTrendBufferIdx' = (DU_TmprTrendBufferIdx + 1) % TREND_COUNT
       /\ \A i \in Slots \ {DU_TmprTrendBufferIdx} :
            DU_TmprTrendBuffer'[i] = DU_TmprTrendBuffer[i]
       /\ DOMAIN DU_TmprTrendBuffer' = Slots
       /\ DU_Filtered' = DU_Filtered]_vars

\* C2's case: an Add that wrote the last slot over an older, different value
\* and wrapped the cursor to 0.
C2_Witness ==
  /\ call.fn = "AddTmprToTrendBuffer"
  /\ DU_TmprTrendBufferIdx = 0
  /\ Len(hist) > TREND_COUNT
  /\ DU_TmprTrendBuffer[TREND_COUNT - 1] = call.arg
  /\ hist[Len(hist) - TREND_COUNT] # call.arg

\* C3: after Init_TmprTrendBuffer(t0) returns, all N slots equal t0 and the
\* write cursor equals 0, in whatever state Init was called.
C3_InitPost ==
  call.fn = "Init_TmprTrendBuffer" =>
    /\ \A i \in Slots : DU_TmprTrendBuffer[i] = call.arg
    /\ DU_TmprTrendBufferIdx = 0

\* C4: in every reachable state the write cursor is in 0..N-1 and both
\* indices read by GetTemperatureTrend are in 0..N-1: no slot outside the
\* array is read or written.
C4_IndexInBounds ==
  /\ DU_TmprTrendBufferIdx \in Slots
  /\ DOMAIN DU_TmprTrendBuffer = Slots
  /\ PrevSlot \in Slots
  /\ Classified => (call.oldestIdx \in Slots /\ call.newestIdx \in Slots)

\* C4's case: a classification after the cursor has wrapped, reading the
\* first and the last slot.
C4_Witness ==
  /\ Classified
  /\ Len(hist) > TREND_COUNT
  /\ call.oldestIdx = 0
  /\ call.newestIdx = TREND_COUNT - 1

\* C5: GetTemperatureTrend called after Init_TmprTrendBuffer(t0) with no Add
\* in between returns 0 (Stable).
C5_StableAfterInit ==
  (TrendInitDone /\ hist = <<>> /\ Classified) => call.ret = 0

\* C5's case: a classification right after an Init that overwrote other
\* values, with the cursor away from 0.
C5_Witness ==
  /\ TrendInitDone
  /\ hist = <<>>
  /\ Classified
  /\ DU_TmprTrendBufferIdx = 3
  /\ call.oldestTemp = trendInit[1]
  /\ trendInit[1] # 2000

\* C6: from Init(t0), after N-1 Add(t0) and one Add(v), GetTemperatureTrend
\* returns 1 if v > t0 + T, -1 if v < t0 - T and 0 otherwise.
C6_StepScenario ==
  (/\ TrendInitDone
   /\ Len(hist) = TREND_COUNT
   /\ \A j \in 1 .. (TREND_COUNT - 1) : hist[j] = trendInit[1]
   /\ Classified)
  => call.ret = Trend(trendInit[1], hist[TREND_COUNT])

\* C6's case: the rising scenario, the tenth Add more than T above t0.
C6_Witness ==
  /\ TrendInitDone
  /\ Len(hist) = TREND_COUNT
  /\ \A j \in 1 .. (TREND_COUNT - 1) : hist[j] = trendInit[1]
  /\ hist[TREND_COUNT] > trendInit[1] + TREND_THRESHOLD
  /\ Classified
  /\ call.ret = 1

\* The N slots read cyclically from the cursor.
Window ==
  [j \in 1 .. TREND_COUNT |->
     DU_TmprTrendBuffer[(DU_TmprTrendBufferIdx + j - 1) % TREND_COUNT]]

\* The last N values Added.
LastAdds == SubSeq(hist, Len(hist) - TREND_COUNT + 1, Len(hist))

\* C7: after Init and k >= N Adds the cursor equals k mod N and the N slots
\* read cyclically from the cursor are the last N values Added, in order.
C7_FifoWindow ==
  (TrendInitDone /\ Len(hist) >= TREND_COUNT) =>
    /\ DU_TmprTrendBufferIdx = Len(hist) % TREND_COUNT
    /\ Window = LastAdds

\* C8 as stated: once N+1 Adds have happened since Init, GetTemperatureTrend
\* compares the most recent Add against the Add made N Adds before it.
C8_NSamplesBack ==
  (TrendInitDone /\ Len(hist) >= TREND_COUNT + 1 /\ Classified) =>
    /\ call.newestTemp = hist[Len(hist)]
    /\ call.oldestTemp = hist[Len(hist) - TREND_COUNT]

\* C8 amended: once N+1 Adds have happened since Init, GetTemperatureTrend
\* compares the most recent Add against the Add made N-1 Adds before it, the
\* oldest of the N values the buffer holds.
C8_OldestOfWindow ==
  (TrendInitDone /\ Len(hist) >= TREND_COUNT + 1 /\ Classified) =>
    /\ call.newestTemp = hist[Len(hist)]
    /\ stamp[call.newestIdx] = Len(hist)
    /\ call.oldestTemp = hist[Len(hist) - TREND_COUNT + 1]
    /\ stamp[call.oldestIdx] = Len(hist) - TREND_COUNT + 1

\* C8's case: a classification after N+1 Adds where the Add N back and the
\* Add N-1 back differ, so the two readings of the claim differ.
C8_Witness ==
  /\ TrendInitDone
  /\ Len(hist) >= TREND_COUNT + 1
  /\ Classified
  /\ hist[Len(hist) - TREND_COUNT] # hist[Len(hist) - TREND_COUNT + 1]
  /\ call.oldestTemp = hist[Len(hist) - TREND_COUNT + 1]

\* C9: after Init and any number of Adds, buffer[cursor] is a
\* least-recently-written slot, and once an Add has happened the cursor's
\* cyclic predecessor holds the value of the most recent Add.
C9_OldestAtCursor ==
  TrendInitDone =>
    /\ \A i \in Slots : stamp[DU_TmprTrendBufferIdx] <= stamp[i]
    /\ Len(hist) >= 1 =>
         /\ DU_TmprTrendBuffer[PrevSlot] = hist[Len(hist)]
         /\ stamp[PrevSlot] = Len(hist)

\* C9's case: the buffer partly rewritten since an Init made at a cursor
\* other than 0, the slot at the cursor still holding the Init value.
C9_Witness ==
  /\ TrendInitDone
  /\ Len(hist) = 4
  /\ DU_TmprTrendBufferIdx = 2
  /\ stamp[DU_TmprTrendBufferIdx] = 0
  /\ stamp[PrevSlot] = 4
  /\ DU_TmprTrendBuffer[PrevSlot] # DU_TmprTrendBuffer[DU_TmprTrendBufferIdx]

\* One step of the recurrence ALPHA*raw + (1-ALPHA)*filtered.
Smoothed(filtered, raw) ==
  StoreFloat((ALPHA * raw) + ((ONE - ALPHA) * filtered), ONE)

\* The recurrence applied to t0 along rs.
RECURSIVE Fold(_, _)
Fold(t0, rs) ==
  IF rs = <<>> THEN t0 ELSE Fold(Smoothed(t0, Head(rs)), Tail(rs))

\* C10: Init_ExponentialSmooth(t0) stores t0; each Run_ExponentialSmooth(raw)
\* stores and returns ALPHA*raw + (1-ALPHA)*filtered of the stored value; after
\* raw1..rawk the stored value is the k-fold recurrence applied to t0.
C10_Recurrence ==
  /\ call.fn = "Init_ExponentialSmooth" => DU_Filtered = call.arg
  /\ call.fn = "Run_ExponentialSmooth" => call.ret = DU_Filtered
  /\ smoothInit # <<>> => DU_Filtered = Fold(smoothInit[1], raws)

\* C10's case: three or more Updates after an Init, the stored value a
\* proper blend: neither the initial value nor any raw sample.
C10_Witness ==
  /\ smoothInit # <<>>
  /\ Len(raws) >= 3
  /\ call.fn = "Run_ExponentialSmooth"
  /\ call.ret = DU_Filtered
  /\ DU_Filtered \notin RawSamples
  /\ raws[1] # raws[2]

Min(a, b) == IF a <= b THEN a ELSE b

Max(a, b) == IF a >= b THEN a ELSE b

Abs(a) == IF a >= 0 THEN a ELSE 0 - a

\* The value the filter started from: the one of the last Init, or the static
\* initialiser if Init was never called.
InitialValue == IF smoothInit = <<>> THEN DEFAULT_TEMP ELSE smoothInit[1]

\* The initial value and the samples filtered since.
Inputs == {InitialValue} \cup {raws[i] : i \in 1 .. Len(raws)}

\* C11: with the ALPHA of DataUtils.h, the value Run_ExponentialSmooth returns
\* lies between the previously stored value and the raw sample, both included;
\* so the stored value stays inside any range that holds the initial value
\* and all the samples.
C11_ConvexBlend ==
  /\ [](\A lo \in Inputs, hi \in Inputs :
          (\A x \in Inputs : lo <= x /\ x <= hi) => (lo <= DU_Filtered /\ DU_Filtered <= hi))
  /\ [][call'.fn = "Run_ExponentialSmooth" =>
          /\ Min(DU_Filtered, call'.arg) <= call'.ret
          /\ call'.ret <= Max(DU_Filtered, call'.arg)]_vars

\* C11's case: an Update whose result lies strictly between the initial
\* value and the sample.
C11_Witness ==
  /\ call.fn = "Run_ExponentialSmooth"
  /\ smoothInit # <<>>
  /\ Len(raws) = 1
  /\ Min(smoothInit[1], raws[1]) < call.ret
  /\ call.ret < Max(smoothInit[1], raws[1])

\* C12: Run_ExponentialSmooth called with the stored value itself returns that
\* value and leaves it stored; so Init_ExponentialSmooth(t0) followed by
\* Run_ExponentialSmooth(t0) returns t0.
C12_FixedPoint ==
  [][(call'.fn = "Run_ExponentialSmooth" /\ call'.arg = DU_Filtered) =>
       (call'.ret = DU_Filtered /\ DU_Filtered' = DU_Filtered)]_vars

\* C12's case: Init(t0), then Update(t0), t0 not the static initialiser.
C12_Witness ==
  /\ call.fn = "Run_ExponentialSmooth"
  /\ smoothInit # <<>>
  /\ smoothInit[1] # DEFAULT_TEMP
  /\ raws = <<smoothInit[1]>>
  /\ call.ret = smoothInit[1]
  /\ DU_Filtered = smoothInit[1]

\* C13 as the spec states it: an Update with x never increases |filtered - x|,
\* never crosses x, and strictly decreases the distance while filtered differs
\* from x.
C13_StrictlyCloser ==
  [][call'.fn = "Run_ExponentialSmooth" =>
       LET x == call'.arg
           d == DU_Filtered - x
           e == DU_Filtered' - x
       IN  /\ Abs(e) <= Abs(d)
           /\ (d >= 0 => e >= 0) /\ (d <= 0 => e <= 0)
           /\ d # 0 => Abs(e) < Abs(d)]_vars

\* C13: an Update with x never increases |filtered - x| and never crosses x;
\* the distance strictly decreases while ALPHA * |filtered - x| is more than
\* half the spacing of the stored values, and the stored value no longer
\* moves once it is less than that.
C13_CloserUntilStall ==
  [][call'.fn = "Run_ExponentialSmooth" =>
       LET x == call'.arg
           d == DU_Filtered - x
           e == DU_Filtered' - x
       IN  /\ Abs(e) <= Abs(d)
           /\ (d >= 0 => e >= 0) /\ (d <= 0 => e <= 0)
           /\ 2 * ALPHA * Abs(d) > ONE => Abs(e) < Abs(d)
           /\ 2 * ALPHA * Abs(d) < ONE => e = d]_vars

\* C13's case: the same sample twice brought the value strictly closer each
\* time, then another sample twice no longer moved it though it differs.
C13_Witness ==
  /\ call.fn = "Run_ExponentialSmooth"
  /\ smoothInit # <<>>
  /\ Len(raws) = 4
  /\ raws[1] = raws[2]
  /\ Abs(Fold(smoothInit[1], SubSeq(raws, 1, 2)) - raws[1])
       < Abs(Fold(smoothInit[1], SubSeq(raws, 1, 1)) - raws[1])
  /\ raws[3] = raws[4]
  /\ DU_Filtered # raws[4]
  /\ DU_Filtered = Fold(smoothInit[1], SubSeq(raws, 1, 2))

\* The statements of loop().
LoopPcs ==
  {"loop_read", "loop_add", "loop_trend", "loop_smooth", "loop_round", "loop_serial",
   "loop_display"}

\* fn is called in this step of the sketch.
Called(fn) == count'[fn] = count[fn] + 1

\* The positions of the current iteration's calls of fn.
CallsOf(fn) == {i \in 1 .. Len(trace) : trace[i].fn = fn}

\* C14: in a run of the sketch each of Init_ExponentialSmooth and
\* Init_TmprTrendBuffer is called at most once, and both have been called
\* exactly once when loop() starts and whenever Run_ExponentialSmooth,
\* AddTmprToTrendBuffer or GetTemperatureTrend has been called.
C14_InitOnceBeforeUse ==
  /\ count["Init_ExponentialSmooth"] <= 1
  /\ count["Init_TmprTrendBuffer"] <= 1
  /\ (\/ pc \in LoopPcs
      \/ count["Run_ExponentialSmooth"] > 0
      \/ count["AddTmprToTrendBuffer"] > 0
      \/ count["GetTemperatureTrend"] > 0)
       => (count["Init_ExponentialSmooth"] = 1 /\ count["Init_TmprTrendBuffer"] = 1)

\* C14's case: the second iteration of loop() has added, classified and
\* filtered, after one Init of each.
C14_Witness ==
  /\ cycles >= 2
  /\ count["AddTmprToTrendBuffer"] >= 2
  /\ count["Run_ExponentialSmooth"] >= 2
  /\ count["GetTemperatureTrend"] >= 3
  /\ count["Init_ExponentialSmooth"] = 1
  /\ count["Init_TmprTrendBuffer"] = 1

\* C15 as the spec states it: setup() never hands an invalid reading to
\* Init_ExponentialSmooth or Init_TmprTrendBuffer, so once loop() runs no slot
\* of the buffer and no filtered value is invalid.
C15_InitValid ==
  /\ call.fn \in {"Init_ExponentialSmooth", "Init_TmprTrendBuffer"} => ~IsNan(call.arg)
  /\ pc \in LoopPcs =>
       /\ ~IsNan(DU_Filtered)
       /\ \A i \in Slots : ~IsNan(DU_TmprTrendBuffer[i])

\* C16: an iteration of loop() calls AddTmprToTrendBuffer and
\* Run_ExponentialSmooth at most once, each with the iteration's sample, every
\* GetTemperatureTrend of the iteration comes after the Add and reads that
\* sample as its newest value; an iteration that reaches the display has made
\* exactly one Add and one Run, and shows the trend of its own sample.
C16_OneAddOneUpdate ==
  /\ Cardinality(CallsOf("AddTmprToTrendBuffer")) <= 1
  /\ Cardinality(CallsOf("Run_ExponentialSmooth")) <= 1
  /\ \A i \in CallsOf("AddTmprToTrendBuffer") \cup CallsOf("Run_ExponentialSmooth") :
       trace[i].arg = loop_t
  /\ \A j \in CallsOf("GetTemperatureTrend") :
       /\ \E i \in CallsOf("AddTmprToTrendBuffer") : i < j
       /\ trace[j].newestTemp = loop_t
  /\ printed # <<>> =>
       /\ Cardinality(CallsOf("AddTmprToTrendBuffer")) = 1
       /\ Cardinality(CallsOf("Run_ExponentialSmooth")) = 1
       /\ Cardinality(CallsOf("GetTemperatureTrend")) = 2
       /\ printed[1].t_raw = loop_t
       /\ printed[1].trend = trace[Len(trace)].ret
       /\ trace[Len(trace)].fn = "GetTemperatureTrend"

\* C16's case: an iteration after the first has reached the display with a
\* sample that differs from the one before it in the buffer.
C16_Witness ==
  /\ cycles >= 2
  /\ printed # <<>>
  /\ trace[1].fn = "AddTmprToTrendBuffer"
  /\ trace[Len(trace)].newestTemp = loop_t
  /\ \E i \in Slots : DU_TmprTrendBuffer[i] \notin {loop_t, NaN}

\* C17: RoundToDecimals(value, places) is a multiple of 10^-places, no other
\* multiple is nearer to value, RoundToDecimals(3.14159, 2) is 3.14, rounding
\* the result again with the same places gives the result, and no call
\* changes the filtered value, the buffer or the cursor.
C17_NearestMultiple ==
  /\ [](rounded.rets # <<>> =>
          LET step == FINE \div Pow10(rounded.places)
              ret == rounded.rets[1]
          IN  /\ ret % step = 0
              /\ 2 * Abs(ret - rounded.value) <= step
              /\ (rounded.value = 314159 /\ rounded.places = 2) => (ret = 314000)
              /\ \A i \in 1 .. Len(rounded.rets) : rounded.rets[i] = ret)
  /\ [][rounded' # rounded => prog' = prog]_vars

\* C17's case: 3.14159 rounded to 2 places gave 3.14, and 3.14 rounded again
\* gave 3.14.
C17_Witness ==
  /\ rounded.value = 314159
  /\ rounded.places = 2
  /\ rounded.rets = <<314000, 314000>>

\* C18: an iteration of loop() whose temperature or humidity reading is
\* invalid leaves buffer, cursor and filtered value as they were, calls nothing,
\* shows nothing and ends; and no call of AddTmprToTrendBuffer or
\* Run_ExponentialSmooth ever gets an invalid value.
C18_InvalidCycleSkipped ==
  /\ [](\A i \in CallsOf("AddTmprToTrendBuffer") \cup CallsOf("Run_ExponentialSmooth") :
          ~IsNan(trace[i].arg))
  /\ [][(cycles' = cycles + 1 /\ (IsNan(loop_t') \/ IsNan(loop_h'))) =>
          /\ prog' = prog
          /\ count' = count
          /\ trace' = <<>>
          /\ printed' = <<>>
          /\ pc' = "loop_read"]_vars

\* C18's case: after an iteration that reached the display, one with a valid
\* temperature and an invalid humidity has been skipped.
C18_Witness ==
  /\ pc = "loop_read"
  /\ cycles >= 2
  /\ count["AddTmprToTrendBuffer"] >= 1
  /\ ~IsNan(loop_t)
  /\ IsNan(loop_h)
  /\ trace = <<>>
  /\ printed = <<>>

\* C19: the buffer and the cursor change only in a call of
\* Init_TmprTrendBuffer or AddTmprToTrendBuffer, the filtered value only in a
\* call of Init_ExponentialSmooth or Run_ExponentialSmooth; GetTemperatureTrend
\* and GetTmprTrendBuffer change none of the three, Run_ExponentialSmooth leaves
\* buffer and cursor alone, and two GetTemperatureTrend calls with no Add
\* between them return the same.
C19_Frame ==
  /\ [](\A i \in CallsOf("GetTemperatureTrend"), j \in CallsOf("GetTemperatureTrend") :
          (\A k \in CallsOf("AddTmprToTrendBuffer") : ~(i < k /\ k < j))
            => trace[i].ret = trace[j].ret)
  /\ [][/\ (DU_TmprTrendBuffer' # DU_TmprTrendBuffer \/ DU_TmprTrendBufferIdx' # DU_TmprTrendBufferIdx)
             => (Called("Init_TmprTrendBuffer") \/ Called("AddTmprToTrendBuffer"))
        /\ (DU_Filtered' # DU_Filtered)
             => (Called("Init_ExponentialSmooth") \/ Called("Run_ExponentialSmooth"))
        /\ (Called("GetTemperatureTrend") \/ Called("GetTmprTrendBuffer")) => (prog' = prog)
        /\ Called("Run_ExponentialSmooth")
             => (DU_TmprTrendBuffer' = DU_TmprTrendBuffer /\ DU_TmprTrendBufferIdx' = DU_TmprTrendBufferIdx)]_vars

\* C19's case: an iteration has classified, filtered (the filtered value
\* moved), read the buffer and classified again, with a trend that is not 0.
C19_Witness ==
  /\ printed # <<>>
  /\ Cardinality(CallsOf("GetTemperatureTrend")) = 2
  /\ printed[1].trend # 0
  /\ \E i \in CallsOf("Run_ExponentialSmooth") : trace[i].ret # setup_t_init
  /\ \E i \in CallsOf("GetTmprTrendBuffer") : trace[i].ret = DU_TmprTrendBuffer

\* C20: the humidity handed to PrintToDisplay is an integer in 0..100; it is
\* round(h) where that is at most 100, and 100 where round(h) is above 100.
C20_HumidityClamped ==
  /\ loop_h_round \in 0 .. 100
  /\ printed # <<>> =>
       /\ printed[1].h \in 0 .. 100
       /\ printed[1].h = loop_h_round
       /\ (RoundHalfAway(loop_h, ONE) \in 0 .. 100) => (printed[1].h = RoundHalfAway(loop_h, ONE))
       /\ (RoundHalfAway(loop_h, ONE) \in 101 .. 255) => (printed[1].h = 100)

\* C20's case: a reading that rounds to 101 reached the display as 100.
C20_Witness ==
  /\ printed # <<>>
  /\ RoundHalfAway(loop_h, ONE) = 101
  /\ printed[1].h = 100

\* Every Add since the last Init supplied the same value.
ConstantAdds == hist # <<>> /\ \A j \in 1 .. Len(hist) : hist[j] = hist[1]

\* C21: after Init_TmprTrendBuffer(a), while every Add supplies the same b,
\* GetTemperatureTrend returns 1 for b > a + T (-1 for b < a - T) after each
\* of the first N-1 Adds, and 0 after the N-th Add and every later one.
C21_StepHeldNMinus1 ==
  (TrendInitDone /\ ConstantAdds /\ Classified) =>
    LET a == trendInit[1]
        b == hist[1]
        k == Len(hist)
    IN  /\ (b > a + TREND_THRESHOLD)
            => (call.ret = IF k <= TREND_COUNT - 1 THEN 1 ELSE 0)
        /\ (b < a - TREND_THRESHOLD)
            => (call.ret = IF k <= TREND_COUNT - 1 THEN -1 ELSE 0)

\* C21's case: the N-th Add of a value more than T above the initial one has
\* been classified, and the trend has cleared.
C21_Witness ==
  /\ TrendInitDone
  /\ ConstantAdds
  /\ Len(hist) = TREND_COUNT
  /\ hist[1] > trendInit[1] + TREND_THRESHOLD
  /\ Classified
  /\ call.ret = 0

\* A step of loop() that takes a sample or changes buffer, cursor or filter.
TakesSample == pc = "mqtt_read" \/ prog' # prog

\* C22 as the spec states it: loop() leaves the connection test only with
\* the client connected, PublishData is called only with the client
\* connected and after the sample was processed, and while the broker stays
\* unreachable loop() takes no sample and changes neither buffer nor filter.
C22_NoSampleWhileBrokerDown ==
  /\ [](published # <<>> =>
          (CallsOf("AddTmprToTrendBuffer") # {} /\ CallsOf("Run_ExponentialSmooth") # {}))
  /\ [][/\ (pc \in Gate /\ pc' \notin Gate) => client_connected
        /\ (published' # published /\ published' # <<>>) => client_connected
        /\ (pc \in Gate \cup Measure /\ ~broker_up /\ ~broker_up') => ~TakesSample]_vars

\* C22: loop() leaves the connection test (the test and ReconnectMqtt) only
\* when client.connected() holds; while it does not hold the iteration stays
\* there, takes no sample and changes neither buffer, cursor nor filter; the
\* client becomes connected only by a client.connect() with the broker in
\* reach; PublishData is called only at the end of an iteration that made
\* its Add and Update, and only with the client connected then.
C22_MeasureBehindConnection ==
  /\ [](published # <<>> =>
          (CallsOf("AddTmprToTrendBuffer") # {} /\ CallsOf("Run_ExponentialSmooth") # {}))
  /\ [][/\ (pc \in Gate /\ pc' \notin Gate) => client_connected
        /\ (pc \in Gate /\ ~client_connected) => (pc' \in Gate /\ ~TakesSample /\ count' = count)
        /\ (~client_connected /\ client_connected') => (broker_up /\ pc = "mqtt_connect")
        /\ (published' # published /\ published' # <<>>)
             => (client_connected /\ pc = "mqtt_publish")]_vars

\* C22's case: after an iteration that measured, a later one is held in
\* ReconnectMqtt: the client is not connected and the broker is out of reach.
C22_Witness ==
  /\ pc = "mqtt_connect"
  /\ ~client_connected
  /\ ~broker_up
  /\ cycles >= 2
  /\ count["AddTmprToTrendBuffer"] >= 1
  /\ trace = <<>>

====
